---- MODULE Spec2Model ----
(***************************************************************************)
(* Model of tarmac-annotate.py: the per-line trace annotation loop         *)
(* (src/tarmac-annotate.py, lines 390-631) and the tables it reads.        *)
(*                                                                         *)
(* Text is a sequence of pieces.  A piece is either a maximal run of       *)
(* non-blank characters (a token) or WS, a run of blanks.  str.split() is  *)
(* the selection of the non-WS pieces, str.rstrip() drops trailing WS.     *)
(* A file is a sequence of lines; the newline ending a line is implicit.   *)
(* Python indexes tokens from 0; Tok(t, i) is lineTokens[i].               *)
(***************************************************************************)
EXTENDS Integers, Sequences, FiniteSets, TLC

VARIABLES
    functionAddressList,    \* the symbol table: two parallel lists,
    functionNameList,       \*   in listing order
    sourceDictionary,       \* address -> "mnemonic operands" text of the listing
    listed,                 \* lines read from listFile so far, in order
    sourceFileList,         \* the source files found under --path, in glob order
    functionDictionary,     \* the signature records ParseCFunctions returned
    phase,                  \* "list" in the loop at 341-368, "sources" at line 375,
                            \*   "trace" from line 377 on
    printed,                \* notices written to the console by the trace loop
    functionStack,          \* CallStack (list of names, top is last)
    functionBranchStack,    \* BranchStack
    isPopInProgress,        \* PopPending
    isEventPending,         \* EventPending
    isNotThumbState,        \* ThumbState = NotThumb
    functionExecutionCount,
    symbolsMissingCount,
    countLines,
    countProgress,
    isStack,                \* --stack option
    isSource,               \* --source option
    consumed,               \* lines read from tarmacFile so far, in order
    output,                 \* outputFile: sequence of [src, text]
    stackOut                \* stackFile: sequence of lines

vars == <<functionAddressList, functionNameList, sourceDictionary, listed,
          sourceFileList, functionDictionary, phase, printed,
          functionStack, functionBranchStack, isPopInProgress, isEventPending,
          isNotThumbState, functionExecutionCount, symbolsMissingCount,
          countLines, countProgress, isStack, isSource, consumed, output,
          stackOut>>

----------------------------------------------------------------------------
(* Bounds of the model *)

\* number of trace lines read in the general specification
MaxLines == 3
\* number of trace lines read in the call/return specification
MaxCallLines == 5
\* number of symbol blocks of a list file, and of trace lines read, in the
\* symbol-table specification
MaxSymbols == 3
MaxSymbolLines == 2
\* number of trace lines read in the return specification
MaxResumeLines == 5
\* number of source files found under --path in the signature specification
MaxFiles == 3
\* number of trace lines read in the wake-up specification
MaxWfiLines == 4
\* length of the longest token sequence the step is probed with
MaxTokens == 12
\* number of trace lines read in the branch specification
MaxBranchLines == 4
\* number of list-file lines read in the listing specification
MaxListLines == 4
\* number of trace lines read in the stack-trace specification
MaxStackLines == 4

----------------------------------------------------------------------------
(* Token layout constants *)

FORMAT_OPCODE_INDEX == 5
FORMAT_OPCODE_PARAMETER_INDEX == 6
FORMAT_OPCODE_BL_ADDRESS_INDEX == 10
FORMAT_TRANSACTION_TYPE_INDEX == 2
FORMAT_ADDRESS_INDEX == 3
FORMAT_THUMB_INDEX == 3
FORMAT_THUMB_ADDRESS_INDEX == 4
FORMAT_THUMB_OPCODE_INDEX == 5
FORMAT_THUMB_STRING == "NOT_IN"

BANNER_FUNCTION_START_STRING == "@@@@@@@@@@@@@@@@@@@@@@@@@@@@@@@@@@@@@@@@@@@@@@@@@@@@@@@@@@@@@@@@@@@@@@@@@@@@@@@@@@@@@@@@@@@@@@@@@@@@@@@@@@@@@@@@@@@@@@@@"
BANNER_FUNCTION_RESUME_STRING == "<<<<<<<<<<<<<<<<<<<<<<<<<<<<<<<<<<<<<<<<<<<<<<<<<<<<<<<<<<<<<<<<<<<<<<<<<<<<<<<<"
BANNER_FUNCTION_EXIT_STRING == ">>>>>>>>>>>>>>>>>>>>>>>>>>>>>>>>>>>>>>>>>>>>>>>>>>>>>>>>>>>>>>>>>>>>>>>>>>>>>>>>"

\* the line-count threshold of the progress display
ProgressLines == 100000
\* the progress display wraps after this many dots
ProgressWrap == 70
\* column to which a line is padded before the source text is appended
SourceColumn == 60
\* WFI pops only when the CallStack is deeper than this
WfiMinDepth == 3
\* the call tree prints the ellipsis when the CallStack is deeper than this
CallTreeFrames == 8

----------------------------------------------------------------------------
(* Text *)

WS == " "

\* lineTokens[i], Python index
Tok(t, i) == t[i + 1]

\* str.split(): the non-blank pieces, in order
Split(text) == SelectSeq(text, LAMBDA p : p # WS)

\* str.rstrip(): drop the trailing blanks
RECURSIVE RStrip(_)
RStrip(text) ==
    IF text = <<>> THEN <<>>
    ELSE IF text[Len(text)] = WS THEN RStrip(SubSeq(text, 1, Len(text) - 1))
    ELSE text

\* a trace line as the simulator prints it: tokens separated by blanks
RECURSIVE MkLine(_)
MkLine(t) ==
    IF t = <<>> THEN <<>>
    ELSE IF Len(t) = 1 THEN <<t[1]>>
    ELSE <<t[1], WS>> \o MkLine(Tail(t))

\* number of characters of a text (a run of blanks counted as written by MkLine)
RECURSIVE Width(_)
Width(text) == IF text = <<>> THEN 0 ELSE Len(text[1]) + Width(Tail(text))

\* string concatenation a + b of two texts: the pieces at the seam merge
\* unless one of them is blank
Cat(a, b) ==
    IF a = <<>> THEN b
    ELSE IF b = <<>> THEN a
    ELSE IF a[Len(a)] # WS /\ b[1] # WS
         THEN SubSeq(a, 1, Len(a) - 1) \o <<a[Len(a)] \o b[1]>> \o Tail(b)
    ELSE IF a[Len(a)] = WS /\ b[1] = WS
         THEN a \o Tail(b)
    ELSE a \o b

\* f"{text:<60}": pad with blanks up to the column
PadTo(text, n) == IF Width(text) < n THEN Cat(text, <<WS>>) ELSE text

\* the characters of the classes the code's patterns and tests name
LowerCase == "abcdefghijklmnopqrstuvwxyz"
UpperCase == "ABCDEFGHIJKLMNOPQRSTUVWXYZ"
CharsOf(s) == {SubSeq(s, i, i) : i \in 1..Len(s)}
Letters == CharsOf(LowerCase) \cup CharsOf(UpperCase)

\* s.startswith(prefix)
StartsWith(s, prefix) == Len(s) >= Len(prefix) /\ SubSeq(s, 1, Len(prefix)) = prefix

\* s.replace(old, ""): every occurrence of old, found from the left, is removed
RECURSIVE Remove(_, _)
Remove(s, old) ==
    IF Len(s) < Len(old) THEN s
    ELSE IF StartsWith(s, old) THEN Remove(SubSeq(s, Len(old) + 1, Len(s)), old)
    ELSE SubSeq(s, 1, 1) \o Remove(SubSeq(s, 2, Len(s)), old)

\* address.replace("0x", "")
Strip0x(s) == Remove(s, "0x")

\* token.startswith(FORMAT_THUMB_STRING)
StartsWithThumbString(s) == StartsWith(s, FORMAT_THUMB_STRING)

\* token[:2]
Prefix2(s) == SubSeq(s, 1, IF Len(s) < 2 THEN Len(s) ELSE 2)

----------------------------------------------------------------------------
(* Tables built before the trace is read *)

(* Lines 341-368: the list file *)

\* re.search("^0x[0-9a-f]{8}:", token)
IsAddressLabel(s) ==
    /\ Len(s) >= 11
    /\ SubSeq(s, 1, 2) = "0x"
    /\ \A i \in 3..10 : SubSeq(s, i, i) \in CharsOf("0123456789abcdef")
    /\ SubSeq(s, 11, 11) = ":"

\* token.replace(":", "").replace("0x", "")
StripLabel(s) == Remove(Remove(s, ":"), "0x")

\* the token without its leading underscores
RECURSIVE SkipUnderscores(_)
SkipUnderscores(s) ==
    IF StartsWith(s, "_") THEN SkipUnderscores(SubSeq(s, 2, Len(s))) ELSE s

\* re.search("^_*[a-zA-Z]+[a-zA-Z0-9_]+$", token): underscores, then one
\* letter or more, then one more character or more, so "f", "_g" and "$t" do
\* not match
IsSymbolName(s) ==
    LET rest == SkipUnderscores(s)
    IN  /\ Len(rest) >= 2
        /\ SubSeq(rest, 1, 1) \in Letters
        /\ \A i \in 2..Len(rest) :
              SubSeq(rest, i, i) \in Letters \cup CharsOf("0123456789_")

\* the state of the list-file loop before the first line (lines 325-333)
ListFileStart ==
    [isSymbolFound |-> FALSE, functionName |-> "default",
     functionAddressList |-> <<>>, functionNameList |-> <<>>,
     sourceDictionary |-> <<>>]

\* lines 343-368: one line of the list file
ListFileLine(s, line) ==
    LET t == Split(line)
        isIdentifier == Len(t) > 4 /\ IsAddressLabel(t[1])
        address == StripLabel(t[1])
        source == IF Len(t) > 4
                  THEN [a \in DOMAIN s.sourceDictionary \cup {address} |->
                           IF a = address THEN Cat(PadTo(<<t[4]>>, 9), <<t[5]>>)
                           ELSE s.sourceDictionary[a]]
                  ELSE s.sourceDictionary
        isAppended == s.isSymbolFound /\ isIdentifier
        isSymbol == Len(t) = 1 /\ IsSymbolName(t[1])
    IN  [isSymbolFound |-> isSymbol,
         functionName |-> IF isSymbol THEN t[1] ELSE s.functionName,
         functionAddressList |-> IF isAppended
                                 THEN Append(s.functionAddressList, address)
                                 ELSE s.functionAddressList,
         functionNameList |-> IF isAppended
                              THEN Append(s.functionNameList, s.functionName)
                              ELSE s.functionNameList,
         sourceDictionary |-> source]

\* lines 341-368: the tables after the whole list file was read
RECURSIVE ReadListFile(_, _)
ReadListFile(s, lines) ==
    IF lines = <<>> THEN s
    ELSE ReadListFile(ListFileLine(s, Head(lines)), Tail(lines))

----------------------------------------------------------------------------
(* Lines 95-153: ParseCFunctions *)

\* "tinycbor" in sourceFileName.lower(): the lowered name holds the word where
\* the name holds it in either case, since a character lowers to one of its
\* letters only if it is that letter or its capital
IsThirdParty(name) ==
    LET word == "tinycbor"
        capitals == "TINYCBOR"
    IN  \E i \in 1..(Len(name) - Len(word) + 1) :
            \A k \in 1..Len(word) :
                SubSeq(name, i + k - 1, i + k - 1)
                    \in {SubSeq(word, k, k), SubSeq(capitals, k, k)}

\* a character str.strip() removes: the blank, the ASCII controls 09 to 0D and
\* 1C to 1F, and the spaces 85, A0 and 1680; the spaces from 2000 up cannot be
\* written in a string of this module
IsSpace(char) ==
    char \in {" ", "\t", "\n", "\r", "\f", "", "", "", "", "",
              "", " ", " "}

\* text.lstrip() and text.rstrip() of a string, character by character
RECURSIVE LStripText(_)
LStripText(s) ==
    IF s = "" THEN ""
    ELSE IF IsSpace(SubSeq(s, 1, 1)) THEN LStripText(SubSeq(s, 2, Len(s)))
    ELSE s
RECURSIVE RStripText(_)
RStripText(s) ==
    IF s = "" THEN ""
    ELSE IF IsSpace(SubSeq(s, Len(s), Len(s))) THEN RStripText(SubSeq(s, 1, Len(s) - 1))
    ELSE s

\* text.strip()
StripText(s) == RStripText(LStripText(s))

\* lines 128-144: split the parameter text on the commas outside parentheses,
\* one character at a time
RECURSIVE SplitParameters(_, _, _, _)
SplitParameters(params, currentParameter, depth, parameterList) ==
    IF params = ""
    THEN IF currentParameter # ""
         THEN Append(parameterList, StripText(currentParameter))
         ELSE parameterList
    ELSE LET char == SubSeq(params, 1, 1)
             rest == SubSeq(params, 2, Len(params))
         IN  IF char = "("
             THEN SplitParameters(rest, currentParameter, depth + 1, parameterList)
             ELSE IF char = ")"
             THEN SplitParameters(rest, currentParameter, depth - 1, parameterList)
             ELSE IF char = "," /\ depth = 0
             THEN SplitParameters(rest, "",  depth,
                                  Append(parameterList, StripText(currentParameter)))
             ELSE SplitParameters(rest, currentParameter \o char, depth,
                                  parameterList)

\* lines 121-151: the records of the declarations matched in one file; a
\* match is [returnType, name, params], the three groups of the pattern
RECURSIVE Declarations(_, _)
Declarations(sourceFileName, matches) ==
    IF matches = <<>> THEN <<>>
    ELSE LET match == Head(matches)
             returnType == StripText(match.returnType)
             params == StripText(match.params)
         IN  (IF returnType # ""
              THEN << [fileName |-> sourceFileName, returnType |-> returnType,
                       name |-> match.name,
                       parameters |-> SplitParameters(params, "", 0, <<>>)] >>
              ELSE <<>>)
             \o Declarations(sourceFileName, Tail(matches))

\* lines 95-153; a file is [name, missing, matches], matches being what
\* re.findall returns on its content
RECURSIVE ParseCFunctions(_, _)
ParseCFunctions(files, functions) ==
    IF files = <<>> THEN functions
    ELSE LET f == Head(files)
         IN  IF IsThirdParty(f.name) THEN ParseCFunctions(Tail(files), functions)
             ELSE IF f.missing THEN <<>>
             ELSE ParseCFunctions(Tail(files),
                                  functions \o Declarations(f.name, f.matches))

----------------------------------------------------------------------------
(* Lookups in the tables *)

\* address in functionAddressList
InAddressList(a) == \E i \in 1..Len(functionAddressList) : functionAddressList[i] = a

\* functionAddressList.index(a): the first position holding a
IndexOfAddress(a) ==
    CHOOSE i \in 1..Len(functionAddressList) :
        /\ functionAddressList[i] = a
        /\ \A j \in 1..(i - 1) : functionAddressList[j] # a

\* functionNameList[functionAddressList.index(a)]
ResolveName(a) == functionNameList[IndexOfAddress(a)]

\* next((item for item in functionDictionary if item["name"] == n), None)
HasFunctionEntry(n) == \E i \in 1..Len(functionDictionary) : functionDictionary[i].name = n
FunctionEntry(n) ==
    functionDictionary[CHOOSE i \in 1..Len(functionDictionary) :
        /\ functionDictionary[i].name = n
        /\ \A j \in 1..(i - 1) : functionDictionary[j].name # n]

variableDictionary ==
    [a \in {"20000000", "20000004", "20000008", "2000000c", "20000010",
            "20000014", "20000018", "2000001c", "20000020", "20000024",
            "20000028", "2000002c", "20000030", "20000034", "20000038",
            "2000003c", "20000040", "20000044", "20000048", "2000004c",
            "20000050", "20000054", "20000058", "2000005c", "20000060",
            "20000064", "40240000", "40240004", "40240008", "4024000c"} |->
        CASE a = "20000000" -> "ADDRESS_RamVecTable0"
          [] a = "20000004" -> "ADDRESS_RamVecTable1"
          [] a = "20000008" -> "ADDRESS_RamVecTable2"
          [] a = "2000000c" -> "ADDRESS_RamVecTable3"
          [] a = "20000010" -> "ADDRESS_RamVecTable4"
          [] a = "20000014" -> "ADDRESS_RamVecTable5"
          [] a = "20000018" -> "ADDRESS_RamVecTable6"
          [] a = "2000001c" -> "ADDRESS_RamVecTable7"
          [] a = "20000020" -> "ADDRESS_RamVecTable8"
          [] a = "20000024" -> "ADDRESS_RamVecTable9"
          [] a = "20000028" -> "ADDRESS_RamVecTable10"
          [] a = "2000002c" -> "ADDRESS_RamVecTable11"
          [] a = "20000030" -> "ADDRESS_RamVecTable12"
          [] a = "20000034" -> "ADDRESS_RamVecTable13"
          [] a = "20000038" -> "ADDRESS_RamVecTable14"
          [] a = "2000003c" -> "ADDRESS_RamVecTable15"
          [] a = "20000040" -> "ADDRESS_RamVecTable16"
          [] a = "20000044" -> "ADDRESS_RamVecTable17"
          [] a = "20000048" -> "ADDRESS_RamVecTable18"
          [] a = "2000004c" -> "ADDRESS_RamVecTable19"
          [] a = "20000050" -> "ADDRESS_RamVecTable20"
          [] a = "20000054" -> "ADDRESS_RamVecTable21"
          [] a = "20000058" -> "ADDRESS_RamVecTable22"
          [] a = "2000005c" -> "ADDRESS_RamVecTable23"
          [] a = "20000060" -> "ADDRESS_RamVecTable24"
          [] a = "20000064" -> "ADDRESS_RamVecTable25"
          [] OTHER -> "REGISTER_AdcOutput0"]

----------------------------------------------------------------------------
(* Lines 419-459: repair of a reduced-information line in NotThumb mode *)

\* the relabelling without the copy of the alternate address fields
RelabelInPlace(t, opcode) ==
    Append([t EXCEPT ![FORMAT_ADDRESS_INDEX + 3] = opcode], "{{pc}}")

\* lines 433-437 / 441-445: copy the alternate address fields, relabel, append
Relabel(t, opcode) ==
    Append([t EXCEPT ![FORMAT_ADDRESS_INDEX + 1] = Tok(t, FORMAT_THUMB_ADDRESS_INDEX),
                     ![FORMAT_ADDRESS_INDEX + 2] = Tok(t, FORMAT_THUMB_ADDRESS_INDEX + 1),
                     ![FORMAT_ADDRESS_INDEX + 3] = opcode],
           "{{pc}}")

IsReducedLine(t) ==
    /\ Len(t) = FORMAT_OPCODE_PARAMETER_INDEX
    /\ StartsWithThumbString(Tok(t, FORMAT_THUMB_INDEX))

RepairTokens(t) ==
    LET opcodeString == Prefix2(Tok(t, FORMAT_THUMB_OPCODE_INDEX))
    IN  IF opcodeString = "b5" THEN Relabel(t, "PUSH")
        ELSE IF opcodeString = "bd" THEN Relabel(t, "POP")
        ELSE IF Tok(t, FORMAT_THUMB_OPCODE_INDEX) = "bf30"
             THEN [t EXCEPT ![FORMAT_THUMB_OPCODE_INDEX + 1] = "WFI"]
        ELSE t

\* the text of the line after the repair step
RepairLine(t, line, source) ==
    LET opcodeString == Prefix2(Tok(t, FORMAT_THUMB_OPCODE_INDEX))
        isWfi == /\ opcodeString \notin {"b5", "bd"}
                 /\ Tok(t, FORMAT_THUMB_OPCODE_INDEX) = "bf30"
        line1 == IF isWfi /\ ~source
                 THEN Cat(RStrip(line), <<WS, ";", WS, "WFI">>)
                 ELSE line
        address == Tok(RepairTokens(t), FORMAT_THUMB_ADDRESS_INDEX)
    IN  IF source /\ address \in DOMAIN sourceDictionary
        THEN Cat(PadTo(RStrip(line1), SourceColumn), sourceDictionary[address])
        ELSE line1

\* the repair applied in Thumb mode too
RepairInEveryMode(thumb, source, t, line) ==
    IF IsReducedLine(t)
    THEN [tokens |-> RepairTokens(t), line |-> RepairLine(t, line, source)]
    ELSE [tokens |-> t, line |-> line]

\* [tokens, line] as they stand at line 461
Repair(thumb, source, t, line) ==
    IF thumb /\ IsReducedLine(t)
    THEN [tokens |-> RepairTokens(t), line |-> RepairLine(t, line, source)]
    ELSE [tokens |-> t, line |-> line]

----------------------------------------------------------------------------
(* Lines 461-614: dispatch on the token count *)

\* the dispatch with the memory-access test made first, on the type alone
LineFormAccessFirst(t) ==
    IF Len(t) >= FORMAT_OPCODE_INDEX
       /\ Tok(t, FORMAT_TRANSACTION_TYPE_INDEX) \in {"MR4_D", "MW4_D"} THEN "short"
    ELSE IF Len(t) > FORMAT_OPCODE_BL_ADDRESS_INDEX THEN "long"
    ELSE IF Len(t) >= FORMAT_OPCODE_PARAMETER_INDEX THEN "mid"
    ELSE IF Len(t) >= FORMAT_OPCODE_INDEX THEN "short"
    ELSE "none"

\* the dispatch with the mid-length test one token too early
LineFormOffByOne(t) ==
    IF Len(t) > FORMAT_OPCODE_BL_ADDRESS_INDEX THEN "long"
    ELSE IF Len(t) >= FORMAT_OPCODE_INDEX THEN "mid"
    ELSE "none"

\* which branch of the if / elif / elif at lines 461, 482, 600 takes the line
LineForm(t) ==
    IF Len(t) > FORMAT_OPCODE_BL_ADDRESS_INDEX THEN "long"
    ELSE IF Len(t) >= FORMAT_OPCODE_PARAMETER_INDEX THEN "mid"
    ELSE IF Len(t) >= FORMAT_OPCODE_INDEX THEN "short"
    ELSE "none"

IsInstructionOrEvent(t) ==
    \/ Tok(t, FORMAT_TRANSACTION_TYPE_INDEX) = "IT"
    \/ Tok(t, FORMAT_TRANSACTION_TYPE_INDEX) = "E"

\* the engine state a line is dispatched on
Engine ==
    [stack |-> functionStack, branch |-> functionBranchStack,
     pop |-> isPopInProgress, event |-> isEventPending,
     thumb |-> isNotThumbState, executed |-> functionExecutionCount,
     missing |-> symbolsMissingCount]

\* the result of a dispatch when nothing applies: state kept, no banner
Untouched(e, line) ==
    [stack |-> e.stack, branch |-> e.branch, pop |-> e.pop, event |-> e.event,
     thumb |-> e.thumb, executed |-> e.executed, missing |-> e.missing,
     newLine |-> <<>>, newLineSuffix |-> <<>>, newLineAfter |-> <<>>,
     line |-> line, stackWrite |-> <<>>, printed |-> <<>>]

\* BL that enters the frame of its target at the call
DispatchLongEntersFrame(e, t, line) ==
    LET u == Untouched(e, line)
        address == Strip0x(Tok(t, FORMAT_OPCODE_BL_ADDRESS_INDEX))
    IN  IF Tok(t, FORMAT_OPCODE_INDEX) # "BL" THEN u
        ELSE IF InAddressList(address)
        THEN [u EXCEPT !.executed = e.executed + 1,
                       !.branch = <<ResolveName(address)>>,
                       !.stack = Append(e.stack, ResolveName(address)),
                       !.newLineAfter = << <<ResolveName(address)>>,
                                           <<BANNER_FUNCTION_RESUME_STRING>> >>,
                       !.event = TRUE]
        ELSE [u EXCEPT !.executed = e.executed + 1,
                       !.newLineAfter = << <<BANNER_FUNCTION_RESUME_STRING>> >>]

\* BL that keeps the earlier return target under the new one
DispatchLongKeepsEarlier(e, t, line) ==
    LET u == Untouched(e, line)
        address == Strip0x(Tok(t, FORMAT_OPCODE_BL_ADDRESS_INDEX))
    IN  IF Tok(t, FORMAT_OPCODE_INDEX) # "BL" THEN u
        ELSE IF InAddressList(address)
        THEN [u EXCEPT !.executed = e.executed + 1,
                       !.branch = Append(e.branch, ResolveName(address)),
                       !.newLineAfter = << <<ResolveName(address)>>,
                                           <<BANNER_FUNCTION_RESUME_STRING>> >>,
                       !.event = TRUE]
        ELSE [u EXCEPT !.executed = e.executed + 1,
                       !.newLineAfter = << <<BANNER_FUNCTION_RESUME_STRING>> >>]

\* lines 461-480: long-form line
DispatchLong(e, t, line) ==
    LET u == Untouched(e, line)
        address == Strip0x(Tok(t, FORMAT_OPCODE_BL_ADDRESS_INDEX))
    IN  IF Tok(t, FORMAT_OPCODE_INDEX) # "BL" THEN u
        ELSE IF InAddressList(address)
        THEN [u EXCEPT !.executed = e.executed + 1,
                       !.branch = <<ResolveName(address)>>,
                       !.newLineAfter = << <<ResolveName(address)>>,
                                           <<BANNER_FUNCTION_RESUME_STRING>> >>,
                       !.event = TRUE]
        ELSE [u EXCEPT !.executed = e.executed + 1,
                       !.newLineAfter = << <<BANNER_FUNCTION_RESUME_STRING>> >>]

\* lines 485-487
EventAfterToken(event, t) == IF event /\ IsInstructionOrEvent(t) THEN FALSE ELSE event

\* lines 489-498: the prefix banner of a pending resume
ResumeBanner(pop, stack, t) ==
    IF pop /\ IsInstructionOrEvent(t)
    THEN IF Len(stack) > 0
         THEN << <<stack[Len(stack)], WS, "resuming...">>,
                 <<BANNER_FUNCTION_RESUME_STRING>> >>
         ELSE << <<BANNER_FUNCTION_RESUME_STRING>> >>
    ELSE <<>>

\* lines 489-492
PopAfterToken(pop, t) == IF pop /\ IsInstructionOrEvent(t) THEN FALSE ELSE pop

\* lines 519-524: file name and prototype of a function with a signature record
SignatureLines(name) ==
    IF functionDictionary # <<>> /\ HasFunctionEntry(name)
    THEN LET f == FunctionEntry(name)
             JoinParameters[i \in 0..Len(f.parameters)] ==
                 IF i = 0 THEN <<>>
                 ELSE IF i = 1 THEN <<f.parameters[1]>>
                 ELSE JoinParameters[i - 1] \o <<",", WS, f.parameters[i]>>
         IN  << <<f.fileName>>,
                Cat(Cat(<<f.returnType, WS, f.name \o "(", WS>>,
                        JoinParameters[Len(f.parameters)]),
                    <<WS, ")">>) >>
    ELSE <<>>

\* lines 526-551: the abbreviated call tree of a stack
CallTree(stack) ==
    LET n == Len(stack)
    IN  IF n > 1
        THEN << <<WS>>
                \o (IF n > CallTreeFrames THEN <<"...", WS, "->", WS>> ELSE <<>>)
                \o (IF n > 7 THEN <<stack[n - 6], WS, "->", WS>> ELSE <<>>)
                \o (IF n > 6 THEN <<stack[n - 5], WS, "->", WS>> ELSE <<>>)
                \o (IF n > 5 THEN <<stack[n - 4], WS, "->", WS>> ELSE <<>>)
                \o (IF n > 4 THEN <<stack[n - 3], WS, "->", WS>> ELSE <<>>)
                \o (IF n > 3 THEN <<stack[n - 2], WS, "->", WS>> ELSE <<>>)
                \o (IF n > 2 THEN <<stack[n - 1], WS, "->", WS>> ELSE <<>>)
                \o <<stack[n]>> >>
        ELSE <<>>

\* line 517: the entry header
EntryHeader(name, address) ==
    <<name, WS, "entry", WS, "(" \o address \o ")", WS>>

\* PUSH that enters a frame whether or not the address resolved
DispatchPushUnchecked(r, t) ==
    LET address == Tok(t, FORMAT_ADDRESS_INDEX)
        name == IF InAddressList(address) THEN ResolveName(address) ELSE address
        pushed == Append(r.stack, name)
    IN  [r EXCEPT !.pop = FALSE,
                  !.newLineAfter = <<>>,
                  !.executed = r.executed + 1,
                  !.missing = IF InAddressList(address) THEN r.missing ELSE r.missing + 1,
                  !.stack = pushed,
                  !.newLine = r.newLine \o << <<BANNER_FUNCTION_START_STRING>> >>
                              \o << EntryHeader(name, address) >>
                              \o SignatureLines(name),
                  !.newLineSuffix = CallTree(pushed)]

\* PUSH that puts the new frame under the older ones
DispatchPushBelow(r, t) ==
    LET address == Tok(t, FORMAT_ADDRESS_INDEX)
        started == [r EXCEPT !.pop = FALSE,
                             !.newLineAfter = <<>>,
                             !.newLine = r.newLine \o << <<BANNER_FUNCTION_START_STRING>> >>,
                             !.executed = r.executed + 1]
    IN  IF InAddressList(address)
        THEN LET name == ResolveName(address)
                 pushed == <<name>> \o r.stack
             IN  [started EXCEPT !.stack = pushed,
                                 !.newLine = started.newLine
                                             \o << EntryHeader(name, address) >>
                                             \o SignatureLines(name),
                                 !.newLineSuffix = CallTree(pushed)]
        ELSE [started EXCEPT !.missing = r.missing + 1]

\* PUSH that enters a nameless frame when the address has no symbol
DispatchPushAnonymous(r, t) ==
    LET address == Tok(t, FORMAT_ADDRESS_INDEX)
        started == [r EXCEPT !.pop = FALSE,
                             !.newLineAfter = <<>>,
                             !.newLine = r.newLine \o << <<BANNER_FUNCTION_START_STRING>> >>,
                             !.executed = r.executed + 1]
    IN  IF InAddressList(address)
        THEN LET name == ResolveName(address)
                 pushed == Append(r.stack, name)
             IN  [started EXCEPT !.stack = pushed,
                                 !.newLine = started.newLine
                                             \o << EntryHeader(name, address) >>
                                             \o SignatureLines(name),
                                 !.newLineSuffix = CallTree(pushed)]
        ELSE [started EXCEPT !.missing = r.missing + 1,
                             !.stack = Append(r.stack, "unknown")]

\* lines 500-553: PUSH, after the pending-flag steps (r is the result so far)
DispatchPush(r, t) ==
    LET address == Tok(t, FORMAT_ADDRESS_INDEX)
        started == [r EXCEPT !.pop = FALSE,
                             !.newLineAfter = <<>>,
                             !.newLine = r.newLine \o << <<BANNER_FUNCTION_START_STRING>> >>,
                             !.executed = r.executed + 1]
    IN  IF InAddressList(address)
        THEN LET name == ResolveName(address)
                 pushed == Append(r.stack, name)
             IN  [started EXCEPT !.stack = pushed,
                                 !.newLine = started.newLine
                                             \o << EntryHeader(name, address) >>
                                             \o SignatureLines(name),
                                 !.newLineSuffix = CallTree(pushed)]
        ELSE [started EXCEPT !.missing = r.missing + 1]

\* POP that names the top frame and leaves it on the CallStack
DispatchPopKeepsFrame(r) ==
    IF Len(r.stack) > 0
    THEN [r EXCEPT !.newLineAfter = << <<r.stack[Len(r.stack)], WS, "exiting...">>,
                                       <<BANNER_FUNCTION_EXIT_STRING>> >>,
                   !.pop = TRUE]
    ELSE [r EXCEPT !.newLineAfter = << <<BANNER_FUNCTION_EXIT_STRING>> >>]

\* POP that sets PopPending whether or not a frame was popped
DispatchPopAlwaysPending(r) ==
    IF Len(r.stack) > 0
    THEN [r EXCEPT !.stack = SubSeq(r.stack, 1, Len(r.stack) - 1),
                   !.newLineAfter = << <<r.stack[Len(r.stack)], WS, "exiting...">>,
                                       <<BANNER_FUNCTION_EXIT_STRING>> >>,
                   !.pop = TRUE]
    ELSE [r EXCEPT !.newLineAfter = << <<BANNER_FUNCTION_EXIT_STRING>> >>,
                   !.pop = TRUE]

\* lines 555-563: POP
DispatchPop(r) ==
    IF Len(r.stack) > 0
    THEN [r EXCEPT !.stack = SubSeq(r.stack, 1, Len(r.stack) - 1),
                   !.newLineAfter = << <<r.stack[Len(r.stack)], WS, "exiting...">>,
                                       <<BANNER_FUNCTION_EXIT_STRING>> >>,
                   !.pop = TRUE]
    ELSE [r EXCEPT !.newLineAfter = << <<BANNER_FUNCTION_EXIT_STRING>> >>]

\* BX that takes the name from the CallStack instead of the BranchStack
DispatchBxFromCallStack(r) ==
    IF Len(r.stack) > 0
    THEN [r EXCEPT !.stack = SubSeq(r.stack, 1, Len(r.stack) - 1),
                   !.newLineAfter = << <<r.stack[Len(r.stack)], WS, "exiting...">>,
                                       <<BANNER_FUNCTION_EXIT_STRING>> >>,
                   !.pop = TRUE]
    ELSE [r EXCEPT !.newLineAfter = << <<BANNER_FUNCTION_EXIT_STRING>> >>]

\* lines 565-573: BX
DispatchBx(r) ==
    IF Len(r.branch) > 0
    THEN [r EXCEPT !.branch = SubSeq(r.branch, 1, Len(r.branch) - 1),
                   !.newLineAfter = << <<r.branch[Len(r.branch)], WS, "exiting...">>,
                                       <<BANNER_FUNCTION_EXIT_STRING>> >>,
                   !.pop = TRUE]
    ELSE [r EXCEPT !.newLineAfter = << <<BANNER_FUNCTION_EXIT_STRING>> >>]

\* lines 575-581: WFI
DispatchWfi(r) ==
    IF Len(r.stack) > WfiMinDepth
    THEN LET s1 == IF r.stack[Len(r.stack)] = "Main_ResetWakeup"
                   THEN SubSeq(r.stack, 1, Len(r.stack) - 1) ELSE r.stack
             s2 == IF s1[Len(s1)] = "Reset_Handler_rom"
                   THEN SubSeq(s1, 1, Len(s1) - 1) ELSE s1
         IN  [r EXCEPT !.stack = s2]
    ELSE r

\* line 588
ReducedNotice == "Information: Tarmac file from DIDO resulting in reduced information."

\* the switch made and reported on every marker line
DispatchOtherEveryMarker(r, t) ==
    IF /\ Tok(t, FORMAT_TRANSACTION_TYPE_INDEX) = "E"
       /\ StartsWithThumbString(Tok(t, FORMAT_THUMB_INDEX))
    THEN [r EXCEPT !.thumb = TRUE, !.printed = <<ReducedNotice>>]
    ELSE r

\* lines 583-588: the switch to NotThumb mode
DispatchOther(r, t) ==
    IF /\ ~r.thumb
       /\ Tok(t, FORMAT_TRANSACTION_TYPE_INDEX) = "E"
       /\ StartsWithThumbString(Tok(t, FORMAT_THUMB_INDEX))
    THEN [r EXCEPT !.thumb = TRUE, !.printed = <<ReducedNotice>>]
    ELSE r

\* lines 590-598: the stack-trace side output
StackTrace(r, t, stackOption) ==
    IF stackOption /\ Tok(t, FORMAT_OPCODE_INDEX) = "(MSP)"
    THEN IF Len(r.stack) > 0
         THEN [r EXCEPT !.stackWrite =
                            << Cat(RStrip(r.line), <<WS, ";", WS, r.stack[Len(r.stack)]>>) >>,
                        !.newLine = <<>>]
         ELSE [r EXCEPT !.stackWrite = <<r.line>>]
    ELSE r

\* lines 482-598: mid-length line
DispatchMid(e, t, line, stackOption) ==
    LET u == Untouched(e, line)
        r == [u EXCEPT !.event = EventAfterToken(e.event, t),
                       !.newLine = ResumeBanner(e.pop, e.stack, t),
                       !.pop = PopAfterToken(e.pop, t)]
        opcode == Tok(t, FORMAT_OPCODE_INDEX)
        d == IF opcode = "PUSH" THEN DispatchPush(r, t)
             ELSE IF opcode = "POP" THEN DispatchPop(r)
             ELSE IF opcode = "BX" THEN DispatchBx(r)
             ELSE IF opcode = "WFI" THEN DispatchWfi(r)
             ELSE DispatchOther(r, t)
    IN  StackTrace(d, t, stackOption)

\* the comment with the arrows of read and write exchanged
VariableCommentSwapped(t) ==
    <<WS, ";", WS, variableDictionary[Tok(t, FORMAT_ADDRESS_INDEX)], WS,
      IF Tok(t, FORMAT_TRANSACTION_TYPE_INDEX) = "MW4_D" THEN "=>" ELSE "<=",
      WS, Tok(t, 4)>>

\* lines 605-614: the comment appended to a variable access
VariableComment(t) ==
    <<WS, ";", WS, variableDictionary[Tok(t, FORMAT_ADDRESS_INDEX)], WS,
      IF Tok(t, FORMAT_TRANSACTION_TYPE_INDEX) = "MW4_D" THEN "<=" ELSE "=>",
      WS, Tok(t, 4)>>

\* lines 600-614: short-form line
DispatchShort(e, t, line) ==
    LET u == Untouched(e, line)
    IN  IF /\ Tok(t, FORMAT_TRANSACTION_TYPE_INDEX) \in {"MR4_D", "MW4_D"}
           /\ Tok(t, FORMAT_ADDRESS_INDEX) \in DOMAIN variableDictionary
        THEN [u EXCEPT !.line = Cat(RStrip(line), VariableComment(t))]
        ELSE u

\* lines 461-614
Dispatch(e, t, line, stackOption) ==
    LET form == LineForm(t)
    IN  IF form = "long" THEN DispatchLong(e, t, line)
        ELSE IF form = "mid" THEN DispatchMid(e, t, line, stackOption)
        ELSE IF form = "short" THEN DispatchShort(e, t, line)
        ELSE Untouched(e, line)

----------------------------------------------------------------------------
(* Lines 419-614: the accesses the step makes, and whether each is defined *)

\* lineTokens[i] is defined
TokDefined(t, i) == i < Len(t)

\* functionNameList.index(n) finds n, and functionAddressList has that index
NameListed(n) ==
    \E i \in 1..Len(functionNameList) :
        functionNameList[i] = n /\ i <= Len(functionAddressList)

\* functionNameList[functionAddressList.index(a)] is defined when a is listed
AddressNamed(a) == InAddressList(a) => IndexOfAddress(a) <= Len(functionNameList)

\* lines 419-459
RepairDefined(e, t, source) ==
    (e.thumb /\ Len(t) = FORMAT_OPCODE_PARAMETER_INDEX)
    => /\ TokDefined(t, FORMAT_THUMB_INDEX)
       /\ StartsWithThumbString(Tok(t, FORMAT_THUMB_INDEX))
           => /\ TokDefined(t, FORMAT_THUMB_OPCODE_INDEX)
              /\ Prefix2(Tok(t, FORMAT_THUMB_OPCODE_INDEX)) \in {"b5", "bd"}
                  => /\ TokDefined(t, FORMAT_THUMB_ADDRESS_INDEX)
                     /\ TokDefined(t, FORMAT_THUMB_ADDRESS_INDEX + 1)
                     /\ TokDefined(t, FORMAT_ADDRESS_INDEX + 2)
              /\ source => TokDefined(RepairTokens(t), FORMAT_THUMB_ADDRESS_INDEX)

\* lines 461-480
LongDefined(e, t) ==
    /\ TokDefined(t, FORMAT_OPCODE_INDEX)
    /\ Tok(t, FORMAT_OPCODE_INDEX) = "BL"
        => /\ TokDefined(t, FORMAT_OPCODE_BL_ADDRESS_INDEX)
           /\ AddressNamed(Strip0x(Tok(t, FORMAT_OPCODE_BL_ADDRESS_INDEX)))

\* lines 482-598
MidDefined(e, t, stackOption) ==
    /\ e.event => TokDefined(t, FORMAT_TRANSACTION_TYPE_INDEX)
    /\ e.pop => /\ TokDefined(t, FORMAT_TRANSACTION_TYPE_INDEX)
                /\ (IsInstructionOrEvent(t) /\ Len(e.stack) > 0)
                    => NameListed(e.stack[Len(e.stack)])
    /\ TokDefined(t, FORMAT_OPCODE_INDEX)
    /\ LET opcode == Tok(t, FORMAT_OPCODE_INDEX)
       IN  IF opcode = "PUSH"
           THEN /\ TokDefined(t, FORMAT_ADDRESS_INDEX)
                /\ AddressNamed(Tok(t, FORMAT_ADDRESS_INDEX))
           ELSE IF opcode = "POP"
                THEN Len(e.stack) > 0 => NameListed(e.stack[Len(e.stack)])
           ELSE IF opcode = "BX"
                THEN Len(e.branch) > 0 => NameListed(e.branch[Len(e.branch)])
           ELSE IF opcode = "WFI"
                THEN Len(e.stack) > WfiMinDepth
                     => /\ Len(e.stack) >= 1
                        /\ e.stack[Len(e.stack)] = "Main_ResetWakeup"
                            => Len(e.stack) - 1 >= 1
           ELSE ~e.thumb
                => /\ TokDefined(t, FORMAT_TRANSACTION_TYPE_INDEX)
                   /\ Tok(t, FORMAT_TRANSACTION_TYPE_INDEX) = "E"
                       => TokDefined(t, FORMAT_THUMB_INDEX)
    /\ stackOption => TokDefined(t, FORMAT_OPCODE_INDEX)

\* lines 600-614
ShortDefined(t) ==
    /\ TokDefined(t, FORMAT_TRANSACTION_TYPE_INDEX)
    /\ Tok(t, FORMAT_TRANSACTION_TYPE_INDEX) \in {"MR4_D", "MW4_D"}
        => /\ TokDefined(t, FORMAT_ADDRESS_INDEX)
           /\ Tok(t, FORMAT_ADDRESS_INDEX) \in DOMAIN variableDictionary
               => TokDefined(t, 4)

\* every index access, stack access and lookup of lines 419-614 is defined
\* for the tokens t read in engine state e
AccessesDefined(e, t, stackOption, source) ==
    /\ RepairDefined(e, t, source)
    /\ LET u == IF e.thumb /\ IsReducedLine(t) THEN RepairTokens(t) ELSE t
           form == LineForm(u)
       IN  IF form = "long" THEN LongDefined(e, u)
           ELSE IF form = "mid" THEN MidDefined(e, u, stackOption)
           ELSE IF form = "short" THEN ShortDefined(u)
           ELSE TRUE

----------------------------------------------------------------------------
(* Lines 616-631: what one line adds to the output file *)

\* a line the engine inserts (banner, header, call tree, blank)
Inserted(lines) == [i \in 1..Len(lines) |-> [src |-> 0, text |-> lines[i]]]

\* lines 616-623
EmitPrefix(r) ==
    IF r.newLine # <<>>
    THEN Inserted(<< <<>> >>) \o Inserted(r.newLine) \o Inserted(r.newLineSuffix)
         \o Inserted(<< <<>> >>)
    ELSE <<>>

\* the suffix banner written without looking at the pending event
EmitSuffixAlways(r) ==
    IF r.newLineAfter # <<>>
    THEN Inserted(<< <<>> >>) \o Inserted(r.newLineAfter) \o Inserted(<< <<>> >>)
    ELSE <<>>

\* lines 627-631
EmitSuffix(r) ==
    IF ~r.event /\ r.newLineAfter # <<>>
    THEN Inserted(<< <<>> >>) \o Inserted(r.newLineAfter) \o Inserted(<< <<>> >>)
    ELSE <<>>

\* the input line left to the stack file when it was written there
EmitUnlessStackWrite(r, n) ==
    EmitPrefix(r)
    \o (IF r.stackWrite # <<>> THEN <<>> ELSE <<[src |-> n, text |-> r.line]>>)
    \o EmitSuffix(r)

\* lines 616-631; n is the number of the input line
Emit(r, n) == EmitPrefix(r) \o <<[src |-> n, text |-> r.line]>> \o EmitSuffix(r)

----------------------------------------------------------------------------
(* The engine *)

\* the list file of the runs: two functions and the code of three addresses
ListFile ==
    << MkLine(<<"Foo">>),
       MkLine(<<"0x2000afc0:", "b570", "p.", "PUSH", "{r4-r6,lr}">>),
       MkLine(<<"Bar">>),
       MkLine(<<"0x10001abc:", "b510", "..", "PUSH", "{r4,lr}">>),
       MkLine(<<"0x10001ad0:", "bd10", "..", "POP", "{r4,pc}">>),
       MkLine(<<"0x10001ae0:", "bf30", "0.", "WFI", ";">>) >>

\* the source files of the runs
FooFile ==
    [name |-> "Foo.c", missing |-> FALSE,
     matches |-> << [returnType |-> "void", name |-> "Foo",
                     params |-> " uint32 logVal "] >>]
SourceFiles == <<FooFile>>

\* lines 325-368: the tables the list file leaves
ListFileRead(lines) ==
    LET s == ReadListFile(ListFileStart, lines)
    IN  /\ functionAddressList = s.functionAddressList
        /\ functionNameList = s.functionNameList
        /\ sourceDictionary = s.sourceDictionary
        /\ listed = lines

\* lines 375-376: the signature table of the source files
SourcesParsed(files) ==
    /\ sourceFileList = files
    /\ functionDictionary = ParseCFunctions(files, <<>>)
    /\ phase = "trace"

\* lines 326-336, 383-395: the engine before the first trace line
InitEngine ==
    /\ printed = <<>>
    /\ functionStack = <<>>
    /\ functionBranchStack = <<>>
    /\ isPopInProgress = FALSE
    /\ isEventPending = FALSE
    /\ isNotThumbState = FALSE
    /\ functionExecutionCount = 0
    /\ symbolsMissingCount = 0
    /\ countLines = 0
    /\ countProgress = 0
    /\ isStack \in BOOLEAN
    /\ isSource \in BOOLEAN
    /\ consumed = <<>>
    /\ output = <<>>
    /\ stackOut = <<>>

Init == ListFileRead(ListFile) /\ SourcesParsed(SourceFiles) /\ InitEngine

\* lines 405-412: the progress counters
CountLinesAfter(c) == IF c + 1 > ProgressLines THEN 0 ELSE c + 1
CountProgressAfter(c, p) ==
    IF c + 1 > ProgressLines
    THEN IF p + 1 > ProgressWrap THEN 1 ELSE p + 1
    ELSE p
\* lines 414-417: what the progress display prints
ProgressPrinted(c, p) ==
    IF c + 1 > ProgressLines
    THEN IF CountProgressAfter(c, p) = 1 THEN <<"Processing...">> ELSE <<".">>
    ELSE <<>>

\* the result of lines 398-614 for one line read in the current state
Annotate(line) ==
    LET rep == Repair(isNotThumbState, isSource, Split(line), line)
    IN  Dispatch(Engine, rep.tokens, rep.line, isStack)

\* lines 397-631: one iteration of the trace loop on the line read
ProcessLine(line) ==
    LET r == Annotate(line)
    IN  /\ phase = "trace"
        /\ consumed' = Append(consumed, line)
        /\ printed' = printed \o ProgressPrinted(countLines, countProgress) \o r.printed
        /\ countLines' = CountLinesAfter(countLines)
        /\ countProgress' = CountProgressAfter(countLines, countProgress)
        /\ functionStack' = r.stack
        /\ functionBranchStack' = r.branch
        /\ isPopInProgress' = r.pop
        /\ isEventPending' = r.event
        /\ isNotThumbState' = r.thumb
        /\ functionExecutionCount' = r.executed
        /\ symbolsMissingCount' = r.missing
        /\ output' = output \o Emit(r, Len(consumed) + 1)
        /\ stackOut' = stackOut \o r.stackWrite
        /\ UNCHANGED <<isStack, isSource, functionAddressList, functionNameList,
                       sourceDictionary, listed, sourceFileList, functionDictionary,
                       phase>>

----------------------------------------------------------------------------
(* Trace lines *)

Stamp == "454166925"

PushFoo == MkLine(<<Stamp, "ns", "IT", "2000afc0", "b510", "PUSH", "{r4,lr}">>)
PushBar == MkLine(<<Stamp, "ns", "IT", "10001abc", "b570", "PUSH", "{r4-r6,lr}">>)
PushUnknown == MkLine(<<Stamp, "ns", "IT", "10000076", "b510", "PUSH", "{r4,lr}">>)
PopLine == MkLine(<<Stamp, "ns", "IT", "10001ad0", "bd10", "POP", "{r4,pc}">>)
BxLine == MkLine(<<Stamp, "ns", "IT", "10001ad4", "4770", "BX", "lr">>)
WfiLine == MkLine(<<Stamp, "ns", "IT", "10001ae0", "bf30", "WFI">>)
MovsLine == MkLine(<<Stamp, "ns", "IT", "10000078", "2600", "MOVS", "r6,#0">>)
BlFoo ==
    MkLine(<<Stamp, "ns", "IT", "10001ab8", "f000f802", "BL", "{pc}+8", ";",
             "branch", "to", "0x2000afc0">>)
BlUnknown ==
    MkLine(<<Stamp, "ns", "IT", "10001ab8", "f000f802", "BL", "{pc}+8", ";",
             "branch", "to", "0x10000076">>)
MspLine == MkLine(<<Stamp, "ns", "R", "r13", "2001fe48", "(MSP)">>)
WriteVariable == MkLine(<<Stamp, "ns", "MW4_D", "40240000", "00000001">>)
ReadVariable == MkLine(<<Stamp, "ns", "MR4_D", "20000000", "00000072">>) \o <<WS>>
WriteOther == MkLine(<<Stamp, "ns", "MW4_D", "2001fe48", "40240000">>)
FetchLine == MkLine(<<Stamp, "ns", "MR4_I", "20000004", "49076008">>)
ReducedMarker == MkLine(<<Stamp, "ns", "E", "NOT_IN_THUMB_STATE", "10000078", "2600">>)
ReducedPush == MkLine(<<Stamp, "ns", "E", "NOT_IN_THUMB_STATE", "2000afc0", "b570">>)
ReducedPop == MkLine(<<Stamp, "ns", "E", "NOT_IN_THUMB_STATE", "10001ad0", "bd10">>)
ReducedWfi == MkLine(<<Stamp, "ns", "E", "NOT_IN_THUMB_STATE", "10001ae0", "bf30">>)
BlankLine == <<>>

InstructionLines == {PushFoo, PushBar, PushUnknown, PopLine, BxLine, WfiLine, MovsLine}
BranchLinkLines == {BlFoo, BlUnknown}
AccessLines == {MspLine, WriteVariable, ReadVariable, WriteOther, FetchLine}
ReducedLines == {ReducedMarker, ReducedPush, ReducedPop, ReducedWfi}

\* the engine's own output for a variable access, read again as input
AnnotatedLines ==
    {DispatchShort(Engine, Split(l), l).line : l \in {WriteVariable, ReadVariable}}

ReadInstruction == \E l \in InstructionLines : Len(consumed) < MaxLines /\ ProcessLine(l)
ReadBranchLink == \E l \in BranchLinkLines : Len(consumed) < MaxLines /\ ProcessLine(l)
ReadAccess == \E l \in AccessLines : Len(consumed) < MaxLines /\ ProcessLine(l)
ReadReduced == \E l \in ReducedLines : Len(consumed) < MaxLines /\ ProcessLine(l)
ReadAnnotated == \E l \in AnnotatedLines : Len(consumed) < MaxLines /\ ProcessLine(l)
ReadBlank == Len(consumed) < MaxLines /\ ProcessLine(BlankLine)

Next ==
    \/ ReadInstruction
    \/ ReadBranchLink
    \/ ReadAccess
    \/ ReadReduced
    \/ ReadAnnotated
    \/ ReadBlank

Spec == Init /\ [][Next]_vars

(* The call/return traces: instruction lines and the accesses between them, *)
(* read without the side options.                                          *)
CallLines ==
    {PushFoo, PushBar, PushUnknown, PopLine, BxLine, MovsLine, BlFoo, BlUnknown,
     WriteVariable}

InitCalls == Init /\ ~isStack /\ ~isSource

ReadCall == \E l \in CallLines : Len(consumed) < MaxCallLines /\ ProcessLine(l)

NextCalls == ReadCall

SpecCalls == InitCalls /\ [][NextCalls]_vars

(* The symbol-table runs: list files in which an address appears under more *)
(* than one symbol, and traces that call and leave those addresses.        *)
CodeFoo == MkLine(<<"0x2000afc0:", "b570", "p.", "PUSH", "{r4-r6,lr}">>)
CodeBar == MkLine(<<"0x10001abc:", "b510", "..", "PUSH", "{r4,lr}">>)
\* a symbol line and the code line that follows it
SymbolBlocks ==
    { <<MkLine(<<"Foo">>), CodeFoo>>,
      <<MkLine(<<"Foo_veneer">>), CodeFoo>>,
      <<MkLine(<<"Bar">>), CodeBar>>,
      \* two labels of one code line
      <<MkLine(<<"Bar">>), MkLine(<<"Bar_alias">>), CodeBar>>,
      \* a mapping symbol between the label and the code line
      <<MkLine(<<"Bar_alias">>), MkLine(<<"$t">>), CodeBar>> }

RECURSIVE Flatten(_)
Flatten(blocks) == IF blocks = <<>> THEN <<>> ELSE Head(blocks) \o Flatten(Tail(blocks))

ListFiles == {Flatten(b) : b \in [1..MaxSymbols -> SymbolBlocks]}

BlBar ==
    MkLine(<<Stamp, "ns", "IT", "10001ab8", "f000f802", "BL", "{pc}+8", ";",
             "branch", "to", "0x10001abc">>)
SymbolLines == {PushFoo, PushBar, BlFoo, BlBar, PopLine, BxLine}

InitSymbols ==
    /\ \E l \in ListFiles : ListFileRead(l)
    /\ SourcesParsed(SourceFiles)
    /\ InitEngine /\ ~isStack /\ ~isSource

ReadSymbolLine ==
    \E l \in SymbolLines : Len(consumed) < MaxSymbolLines /\ ProcessLine(l)

NextSymbols == ReadSymbolLine

SpecSymbols == InitSymbols /\ [][NextSymbols]_vars

(* The return runs: calls, returns and the lines read between a return and *)
(* the next instruction, with the stack-trace side output on.              *)
ResumeLines ==
    {PushFoo, PushBar, PopLine, BxLine, BlFoo, MovsLine, MspLine, WriteVariable}

InitResume == Init /\ isStack /\ ~isSource

ReadResumeLine ==
    \E l \in ResumeLines : Len(consumed) < MaxResumeLines /\ ProcessLine(l)

NextResume == ReadResumeLine

SpecResume == InitResume /\ [][NextResume]_vars

(* The signature runs: the source files found under --path, some of them  *)
(* gone by the time they are opened, and the table built from them.        *)
BarFile ==
    [name |-> "Bar.c", missing |-> FALSE,
     matches |-> << [returnType |-> "static int", name |-> "Bar",
                     params |-> "uint32 a, uint8 level"],
                    \* a call statement indented by four blanks
                    [returnType |-> "   ", name |-> "Foo", params |-> "1"],
                    \* a function pointer parameter, cut at its first ")"
                    [returnType |-> "void", name |-> "Reg",
                     params |-> "void (*cb"],
                    \* blank parameter text, and a blank after the last comma
                    [returnType |-> "void", name |-> "Idle", params |-> " "],
                    [returnType |-> "int", name |-> "Baz",
                     params |-> "\tuint32 a,\n "],
                    \* a parameter between two vertical tabs
                    [returnType |-> "void", name |-> "Tab",
                     params |-> "int a"] >>]
GoneFile == [name |-> "Gone.c", missing |-> TRUE, matches |-> <<>>]
CborFile ==
    [name |-> "TinyCBOR\\cbor.c", missing |-> FALSE,
     matches |-> << [returnType |-> "int", name |-> "cbor_parse",
                     params |-> "void"] >>]
GoneCborFile == [name |-> "TinyCBOR\\cbor.c", missing |-> TRUE, matches |-> <<>>]

FoundFiles == {FooFile, BarFile, GoneFile, CborFile, GoneCborFile}
FileLists == UNION {[1..n -> FoundFiles] : n \in 0..MaxFiles}

\* the script at line 375: tables of the list file built, no source file read
InitBuild ==
    /\ ListFileRead(ListFile)
    /\ sourceFileList \in FileLists
    /\ functionDictionary = <<>>
    /\ phase = "sources"
    /\ InitEngine /\ ~isStack /\ ~isSource

\* lines 375-376
ProcessSourceFiles ==
    /\ phase = "sources"
    /\ functionDictionary' = ParseCFunctions(sourceFileList, <<>>)
    /\ phase' = "trace"
    /\ UNCHANGED <<functionAddressList, functionNameList, sourceDictionary,
                   listed, sourceFileList, printed, functionStack, functionBranchStack,
                   isPopInProgress, isEventPending, isNotThumbState,
                   functionExecutionCount, symbolsMissingCount, countLines,
                   countProgress, isStack, isSource, consumed, output, stackOut>>

NextBuild == ProcessSourceFiles

SpecBuild == InitBuild /\ [][NextBuild]_vars

(* The wake-up runs: a list file with the two routines that end in WFI, and *)
(* traces that enter them.                                                 *)
WakeupListFile ==
    << MkLine(<<"Foo">>),
       MkLine(<<"0x2000afc0:", "b570", "p.", "PUSH", "{r4-r6,lr}">>),
       MkLine(<<"Main_ResetWakeup">>),
       MkLine(<<"0x10000100:", "b510", "..", "PUSH", "{r4,lr}">>),
       MkLine(<<"Reset_Handler_rom">>),
       MkLine(<<"0x10000200:", "b510", "..", "PUSH", "{r4,lr}">>) >>

PushMain == MkLine(<<Stamp, "ns", "IT", "10000100", "b510", "PUSH", "{r4,lr}">>)
PushReset == MkLine(<<Stamp, "ns", "IT", "10000200", "b510", "PUSH", "{r4,lr}">>)
WakeupLines ==
    {PushFoo, PushMain, PushReset, PopLine, WfiLine, BlFoo, BxLine, ReducedMarker}

InitWfi ==
    /\ ListFileRead(WakeupListFile)
    /\ SourcesParsed(SourceFiles)
    /\ InitEngine /\ ~isStack /\ ~isSource

ReadWakeupLine ==
    \E l \in WakeupLines : Len(consumed) < MaxWfiLines /\ ProcessLine(l)

NextWfi == ReadWakeupLine

SpecWfi == InitWfi /\ [][NextWfi]_vars

(* The branch runs: branch-and-link lines to two functions and to an       *)
(* address without a symbol, returns through the link register, and the    *)
(* instructions between them.                                              *)
BranchLines ==
    {BlFoo, BlBar, BlUnknown, BxLine, MovsLine, PushFoo, PopLine, WriteVariable}

InitBranch == Init /\ ~isStack /\ ~isSource

ReadBranchLine ==
    \E l \in BranchLines : Len(consumed) < MaxBranchLines /\ ProcessLine(l)

NextBranch == ReadBranchLine

SpecBranch == InitBranch /\ [][NextBranch]_vars

(* The listing runs: the list file read line by line, with symbol lines,   *)
(* code lines and the other lines a disassembly listing holds.             *)
\* a code line of four tokens: an instruction without operands
CodeNop == MkLine(<<"0x10001ad0:", "bf00", "..", "NOP">>)
\* a line of more than four tokens that is not a code line
SectionLine == MkLine(<<"**", "Section", "#1", "'ER_ROM'", "(SHT_PROGBITS)">>)
ListLines ==
    {MkLine(<<"Foo">>), MkLine(<<"Bar">>), MkLine(<<"f">>), MkLine(<<"$t">>),
     CodeFoo, CodeBar, CodeNop, SectionLine}

\* the script at line 341: nothing read yet
InitList ==
    /\ listed = <<>>
    /\ functionAddressList = ListFileStart.functionAddressList
    /\ functionNameList = ListFileStart.functionNameList
    /\ sourceDictionary = ListFileStart.sourceDictionary
    /\ sourceFileList = SourceFiles
    /\ functionDictionary = <<>>
    /\ phase = "list"
    /\ InitEngine /\ ~isStack /\ ~isSource

\* lines 342-368: one iteration of the list-file loop on the line read;
\* isSymbolFound and functionName are as the lines read so far left them
ReadListLine(line) ==
    LET s == ListFileLine(ReadListFile(ListFileStart, listed), line)
    IN  /\ phase = "list"
        /\ listed' = Append(listed, line)
        /\ functionAddressList' = s.functionAddressList
        /\ functionNameList' = s.functionNameList
        /\ sourceDictionary' = s.sourceDictionary
        /\ UNCHANGED <<sourceFileList, functionDictionary, phase, printed,
                       functionStack, functionBranchStack, isPopInProgress,
                       isEventPending, isNotThumbState, functionExecutionCount,
                       symbolsMissingCount, countLines, countProgress, isStack,
                       isSource, consumed, output, stackOut>>

ReadListing == \E l \in ListLines : Len(listed) < MaxListLines /\ ReadListLine(l)

NextList == ReadListing

SpecList == InitList /\ [][NextList]_vars

(* The stack-trace runs: calls, returns and lines with the stack pointer   *)
(* tag in the opcode field, read with the stack-trace side output on and   *)
(* off.                                                                    *)
\* an event line with the stack pointer tag in its opcode field
MspEvent == MkLine(<<Stamp, "ns", "E", "10000078", "00000001", "(MSP)">>)
StackLines ==
    {PushFoo, PushBar, PopLine, BlFoo, BxLine, MovsLine, MspLine, MspEvent}

InitStack == Init /\ ~isSource

ReadStackLine ==
    \E l \in StackLines : Len(consumed) < MaxStackLines /\ ProcessLine(l)

NextStack == ReadStackLine

SpecStack == InitStack /\ [][NextStack]_vars

----------------------------------------------------------------------------
(* Vocabulary of the properties *)

\* the step just taken: the line read, its tokens as dispatched, what it wrote
StepLine == consumed'[Len(consumed')]
StepTokens == Repair(isNotThumbState, isSource, Split(StepLine), StepLine).tokens
Written == SubSeq(output', Len(output) + 1, Len(output'))
TextOf(records) == [i \in 1..Len(records) |-> records[i].text]

\* position in Written of the input line itself
WrittenMain == CHOOSE i \in 1..Len(Written) : Written[i].src # 0
WrittenBefore == TextOf(SubSeq(Written, 1, WrittenMain - 1))
WrittenAfter == TextOf(SubSeq(Written, WrittenMain + 1, Len(Written)))

Blank == <<>>
StartBanner == <<BANNER_FUNCTION_START_STRING>>
ResumeLine == <<BANNER_FUNCTION_RESUME_STRING>>
ExitBanner == <<BANNER_FUNCTION_EXIT_STRING>>
Names == {functionNameList[i] : i \in 1..Len(functionNameList)}

IsMid(t) == Len(t) >= 6 /\ Len(t) <= 10
IsLong(t) == Len(t) >= 11
HasOpcode(t, opcode) == IsMid(t) /\ t[6] = opcode
IsBl(t) == IsLong(t) /\ t[6] = "BL"
IsResolvedBl(t) == IsBl(t) /\ Strip0x(t[11]) \in {"2000afc0", "10001abc"}
IsResolvedPush(t) == HasOpcode(t, "PUSH") /\ t[4] \in {"2000afc0", "10001abc"}
IsUnresolvedPush(t) == HasOpcode(t, "PUSH") /\ t[4] \notin {"2000afc0", "10001abc"}
NameAt(a) == IF a = "2000afc0" THEN "Foo" ELSE "Bar"
TypeOf(t) == t[3]

IsPrefixOf(a, b) == Len(a) <= Len(b) /\ SubSeq(b, 1, Len(a)) = a
MainLines == SelectSeq(output, LAMBDA o : o.src # 0)
InsertedLines == SelectSeq(output, LAMBDA o : o.src = 0)

\* the shapes of the lines the engine inserts
IsBannerOrContext(text) ==
    \/ text = Blank
    \/ text \in {StartBanner, ResumeLine, ExitBanner}
    \/ \E n \in Names : text \in {<<n, WS, "resuming...">>, <<n, WS, "exiting...">>}
    \/ Len(text) = 6 /\ text[1] \in Names /\ text[3] = "entry"
    \/ \E i \in 1..Len(functionDictionary) : text = <<functionDictionary[i].fileName>>
    \/ \E i \in 1..Len(functionDictionary) :
           Len(text) >= 3 /\ text[1] = functionDictionary[i].returnType
                          /\ text[3] = functionDictionary[i].name \o "("
    \/ Len(text) >= 2 /\ text[1] = WS /\ text[Len(text)] \in Names

----------------------------------------------------------------------------
\* C1: every input line read so far is in the output exactly once, in input
\* order, as written or with annotation text appended after it; every other
\* output line is an inserted blank, banner or context line.
C1_InputLinesOnceInOrder ==
    /\ Len(MainLines) = Len(consumed)
    /\ \A i \in 1..Len(MainLines) :
          /\ MainLines[i].src = i
          /\ \/ MainLines[i].text = consumed[i]
             \/ /\ IsPrefixOf(RStrip(consumed[i]), MainLines[i].text)
                /\ Len(MainLines[i].text) > Len(RStrip(consumed[i]))
                /\ MainLines[i].text[Len(RStrip(consumed[i])) + 1] = WS
    /\ \A i \in 1..Len(InsertedLines) : IsBannerOrContext(InsertedLines[i].text)

\* three lines read, one of them annotated, banners inserted between them
C1_Witness ==
    /\ Len(consumed) = 3
    /\ \E i \in 1..3 : MainLines[i].text # consumed[i]
    /\ Len(output) > 3 + 4

----------------------------------------------------------------------------
\* the lines of c after its last BL to a resolved symbol
HasResolvedBl(c) == \E i \in 1..Len(c) : IsResolvedBl(Split(c[i]))
LastResolvedBl(c) ==
    CHOOSE i \in 1..Len(c) :
        /\ IsResolvedBl(Split(c[i]))
        /\ \A j \in (i + 1)..Len(c) : ~IsResolvedBl(Split(c[j]))
IsItOrE(t) == Len(t) >= 3 /\ TypeOf(t) \in {"IT", "E"}
\* no IT or E line has been read after the last BL to a resolved symbol
NoItSinceResolvedBl(c) ==
    /\ HasResolvedBl(c)
    /\ \A j \in (LastResolvedBl(c) + 1)..Len(c) : ~IsItOrE(Split(c[j]))
\* the name that BL resolved
LastBlTarget(c) == NameAt(Strip0x(Split(c[LastResolvedBl(c)])[11]))

\* C2: the resume banner a BL to a resolved symbol schedules (the target
\* name, then the resume banner string) is written to the output by the step
\* that reads the next IT or E line and clears EventPending.
C2_DeferredBannerWritten ==
    [][(isEventPending /\ ~isEventPending')
        => \E i \in 1..(Len(Written) - 1) :
              /\ Written[i].text = <<LastBlTarget(consumed)>>
              /\ Written[i + 1].text = ResumeLine]_vars

\* C3: as long as no IT or E line has been read after a BL to a resolved
\* symbol, whatever the number of memory-access lines read since, no step
\* writes a resume banner.
C3_NoResumeBeforeNextInstruction ==
    [][NoItSinceResolvedBl(consumed')
        => \A i \in 1..Len(Written) : Written[i].text # ResumeLine]_vars

\* a BL to Foo followed by three memory-access lines, the banner still held
C3_Witness ==
    /\ Len(consumed) >= 4
    /\ consumed[Len(consumed) - 3] = BlFoo
    /\ \A j \in (Len(consumed) - 2)..Len(consumed) : consumed[j] = WriteVariable
    /\ isEventPending
    /\ \A i \in 1..Len(output) : output[i].text # <<"Foo">>

----------------------------------------------------------------------------
\* the last line read, and the output lines that follow it
LastTokens == Split(consumed[Len(consumed)])
TailAfterLast ==
    LET m == CHOOSE i \in 1..Len(output) : output[i].src = Len(consumed)
    IN  TextOf(SubSeq(output, m + 1, Len(output)))

\* C4: when a BX line is read after a long-form BL whose target resolved to
\* F, with no other BL or BX line in between (PUSH/POP pairs and any other
\* lines may lie between them), the BX line is followed by the exit banner
\* naming F.
C4_BxNamesBlTarget ==
    \A i \in 1..(Len(consumed) - 1) :
        (/\ IsResolvedBl(Split(consumed[i]))
         /\ HasOpcode(LastTokens, "BX")
         /\ \A k \in (i + 1)..(Len(consumed) - 1) :
               /\ ~IsBl(Split(consumed[k]))
               /\ ~HasOpcode(Split(consumed[k]), "BX"))
        => TailAfterLast =
             <<Blank, <<NameAt(Strip0x(Split(consumed[i])[11])), WS, "exiting...">>,
               ExitBanner, Blank>>

\* BL to Foo, a PUSH/POP pair of Bar, then BX: the banner names Foo
C4_Witness ==
    /\ consumed = <<BlFoo, PushBar, PopLine, BxLine>>
    /\ TailAfterLast = <<Blank, <<"Foo", WS, "exiting...">>, ExitBanner, Blank>>

\* a trace of PUSH lines at resolved addresses, POP lines and lines that are
\* neither call nor return
IsPlainLine(t) ==
    \/ IsResolvedPush(t)
    \/ HasOpcode(t, "POP")
    \/ /\ ~IsBl(t)
       /\ \A o \in {"PUSH", "POP", "BX", "WFI"} : ~HasOpcode(t, o)
       /\ ~(Len(t) >= 4 /\ StartsWithThumbString(t[4]))
Pushes(c, n) == Cardinality({i \in 1..n : IsResolvedPush(Split(c[i]))})
Pops(c, n) == Cardinality({i \in 1..n : HasOpcode(Split(c[i]), "POP")})
IsBalancedTrace(c) ==
    /\ \A i \in 1..Len(c) : IsPlainLine(Split(c[i]))
    /\ \A n \in 1..Len(c) : Pops(c, n) <= Pushes(c, n)
    /\ Pops(c, Len(c)) = Pushes(c, Len(c))
EntryHeaders ==
    Cardinality({i \in 1..Len(output) :
        /\ output[i].src = 0
        /\ Len(output[i].text) = 6
        /\ output[i].text[1] \in Names
        /\ output[i].text[3] = "entry"})
NamedExits ==
    Cardinality({i \in 1..Len(output) :
        /\ output[i].src = 0
        /\ \E n \in Names : output[i].text = <<n, WS, "exiting...">>})

\* C5: after a trace of K PUSH lines at resolved addresses and K properly
\* nested POP lines, read from the empty CallStack, the CallStack is empty
\* and the output holds exactly K entry headers and K exit banners naming a
\* function.
C5_StackBalance ==
    IsBalancedTrace(consumed)
    => /\ functionStack = <<>>
       /\ EntryHeaders = Pushes(consumed, Len(consumed))
       /\ NamedExits = Pushes(consumed, Len(consumed))

\* two nested calls entered and left
C5_Witness ==
    /\ consumed = <<PushFoo, PushBar, PopLine, PopLine>>
    /\ functionStack = <<>>
    /\ EntryHeaders = 2
    /\ NamedExits = 2

----------------------------------------------------------------------------
ImpossiblePop ==
    \/ HasOpcode(StepTokens, "POP") /\ functionStack = <<>>
    \/ HasOpcode(StepTokens, "BX") /\ functionBranchStack = <<>>

\* C6 as stated: a POP read on an empty CallStack, or a BX read on an empty
\* BranchStack, writes no banner for the line and leaves CallStack,
\* BranchStack and PopPending unchanged.
C6_NoAnnotationForImpossiblePop ==
    [][ImpossiblePop
        => /\ TextOf(Written) = <<StepLine>>
           /\ functionStack' = functionStack
           /\ functionBranchStack' = functionBranchStack
           /\ isPopInProgress' = isPopInProgress]_vars

\* C6 amended: such a line writes no exit banner naming a function (after
\* the line there is nothing or the generic exit banner alone), leaves
\* CallStack and BranchStack unchanged and does not set PopPending.
C6_OnlyGenericBannerForImpossiblePop ==
    [][ImpossiblePop
        => /\ WrittenAfter \in {<<>>, <<Blank, ExitBanner, Blank>>}
           /\ \A i \in 1..Len(Written) :
                 \A n \in Names : Written[i].text # <<n, WS, "exiting...">>
           /\ functionStack' = functionStack
           /\ functionBranchStack' = functionBranchStack
           /\ (isPopInProgress' => isPopInProgress)]_vars

\* a POP read as the first line: the generic exit banner, nothing popped
C6_Witness ==
    /\ consumed = <<PopLine>>
    /\ TextOf(output) = <<PopLine, Blank, ExitBanner, Blank>>
    /\ functionStack = <<>>
    /\ ~isPopInProgress

----------------------------------------------------------------------------
\* C7 as stated: a PUSH at an address that is not in the symbol table adds
\* one to the missing-symbol counter, leaves the CallStack unchanged and
\* writes the generic start banner and nothing else.
C7_OnlyStartBannerForUnresolvedPush ==
    [][IsUnresolvedPush(StepTokens)
        => /\ symbolsMissingCount' = symbolsMissingCount + 1
           /\ functionStack' = functionStack
           /\ WrittenBefore = <<Blank, StartBanner, Blank>>
           /\ WrittenAfter = <<>>]_vars

\* the resume banner owed to an earlier POP or BX when the step begins
OwedResume ==
    IF isPopInProgress /\ IsItOrE(StepTokens)
    THEN IF functionStack = <<>>
         THEN <<ResumeLine>>
         ELSE << <<functionStack[Len(functionStack)], WS, "resuming...">>, ResumeLine >>
    ELSE <<>>

\* C7 amended: a PUSH at an address that is not in the symbol table adds one
\* to the missing-symbol counter, leaves the CallStack unchanged and writes
\* the generic start banner, preceded only by the resume banner owed to an
\* earlier POP or BX; no entry header, signature or call-tree line is
\* written.
C7_UnresolvedPushAddsOnlyStartBanner ==
    [][IsUnresolvedPush(StepTokens)
        => /\ symbolsMissingCount' = symbolsMissingCount + 1
           /\ functionStack' = functionStack
           /\ WrittenBefore = <<Blank>> \o OwedResume \o <<StartBanner, Blank>>
           /\ WrittenAfter = <<>>]_vars

\* an unresolved PUSH read while a resume of Foo is owed
C7_Witness ==
    /\ consumed = <<PushFoo, PushBar, PopLine, PushUnknown>>
    /\ symbolsMissingCount = 1
    /\ functionStack = <<"Foo">>
    /\ output[Len(output) - 2].text = StartBanner
    /\ output[Len(output) - 4].text = <<"Foo", WS, "resuming...">>

----------------------------------------------------------------------------
\* C8: a mid-length PUSH line whose address is in the symbol table under F
\* pushes F as the new top of the CallStack and writes, before the line, a
\* start banner followed by the entry header "F entry (address) ".
C8_ResolvedPushEnters ==
    [][IsResolvedPush(StepTokens)
        => /\ functionStack' = Append(functionStack, NameAt(StepTokens[4]))
           /\ \E i \in 1..(Len(WrittenBefore) - 1) :
                 /\ WrittenBefore[i] = StartBanner
                 /\ WrittenBefore[i + 1] =
                      <<NameAt(StepTokens[4]), WS, "entry", WS,
                        "(" \o StepTokens[4] \o ")", WS>>]_vars

\* the PUSH at 2000afc0 read first: CallStack = [Foo]
C8_Witness ==
    /\ consumed = <<PushFoo>>
    /\ functionStack = <<"Foo">>
    /\ output[2].text = StartBanner
    /\ output[3].text = <<"Foo", WS, "entry", WS, "(2000afc0)", WS>>
    /\ output[Len(output)].text = PushFoo

----------------------------------------------------------------------------
\* C9: a 5-token line of type MW4_D or MR4_D whose address is a key of the
\* variable dictionary is output with "; <name> <= <value>" (write) or
\* "; <name> => <value>" (read) appended; any other 5-token line is output
\* unchanged.
C9_VariableAnnotation ==
    \A i \in 1..Len(consumed) :
        LET t == Split(consumed[i])
        IN  Len(t) = 5
            => /\ Len(MainLines) >= i
               /\ MainLines[i].text =
                    IF t[3] \in {"MW4_D", "MR4_D"} /\ t[4] \in DOMAIN variableDictionary
                    THEN RStrip(consumed[i])
                         \o <<WS, ";", WS, variableDictionary[t[4]], WS,
                              IF t[3] = "MW4_D" THEN "<=" ELSE "=>", WS, t[5]>>
                    ELSE consumed[i]

\* a write, a read and an access outside the dictionary, all read
C9_Witness ==
    /\ consumed = <<WriteVariable, ReadVariable, WriteOther>>
    /\ MainLines[1].text =
         WriteVariable \o <<WS, ";", WS, "REGISTER_AdcOutput0", WS, "<=", WS, "00000001">>
    /\ MainLines[2].text =
         RStrip(ReadVariable) \o <<WS, ";", WS, "ADDRESS_RamVecTable0", WS, "=>", WS, "00000072">>
    /\ MainLines[3].text = WriteOther

----------------------------------------------------------------------------
\* l is what the engine wrote for a variable access it annotated
IsOwnAnnotatedOutput(l) ==
    \E i \in 1..Len(output) :
        /\ output[i].src # 0
        /\ output[i].text = l
        /\ Len(Split(consumed[output[i].src])) = 5
        /\ output[i].text # consumed[output[i].src]

\* C10: a memory-access line that already carries its variable comment (the
\* engine's own output for that line) is output unchanged when read again:
\* no second comment, no banner, no change of the engine state.
C10_AnnotationIdempotent ==
    [][IsOwnAnnotatedOutput(StepLine)
        => /\ TextOf(Written) = <<StepLine>>
           /\ Engine' = Engine
           /\ stackOut' = stackOut]_vars

\* the annotated write read again and written as it was read
C10_Witness ==
    /\ Len(consumed) = 2
    /\ consumed[1] = WriteVariable
    /\ consumed[2] = output[1].text
    /\ consumed[2] # consumed[1]
    /\ TextOf(output) = <<consumed[2], consumed[2]>>

----------------------------------------------------------------------------
\* the name recorded last in the symbol table for an address
LastNameAt(a) ==
    functionNameList[CHOOSE i \in 1..Len(functionAddressList) :
        /\ functionAddressList[i] = a
        /\ \A j \in (i + 1)..Len(functionAddressList) : functionAddressList[j] # a]
RecordedTwice(a) ==
    Cardinality({i \in 1..Len(functionAddressList) : functionAddressList[i] = a}) > 1

\* C11: a PUSH at an address of the symbol table enters the name recorded
\* last for that address, and a BL to such an address sets the BranchStack
\* to the name recorded last for it, also when the list file recorded two
\* symbols at the address.
C11_LastSymbolWins ==
    [][/\ (HasOpcode(StepTokens, "PUSH") /\ InAddressList(StepTokens[4]))
           => functionStack' = Append(functionStack, LastNameAt(StepTokens[4]))
       /\ (IsBl(StepTokens) /\ InAddressList(Strip0x(StepTokens[11])))
           => functionBranchStack' = <<LastNameAt(Strip0x(StepTokens[11]))>>]_vars

----------------------------------------------------------------------------
\* token sequences of every length up to MaxTokens, of every shape the step
\* distinguishes
ProbeBases ==
    { <<Stamp, "ns", "IT", "2000afc0", "b510", "PUSH", "{r4,lr}">>,
      <<Stamp, "ns", "IT", "10000076", "b510", "PUSH", "{r4,lr}">>,
      <<Stamp, "ns", "IT", "10001ad0", "bd10", "POP", "{r4,pc}">>,
      <<Stamp, "ns", "IT", "10001ad4", "4770", "BX", "lr">>,
      <<Stamp, "ns", "IT", "10001ae0", "bf30", "WFI">>,
      <<Stamp, "ns", "IT", "10001ab8", "f000f802", "BL", "{pc}+8", ";",
        "branch", "to", "0x2000afc0">>,
      <<Stamp, "ns", "R", "r13", "2001fe48", "(MSP)">>,
      <<Stamp, "ns", "E", "NOT_IN_THUMB_STATE", "2000afc0", "b570">>,
      <<Stamp, "ns", "E", "NOT_IN_THUMB_STATE", "10001ad0", "bd10">>,
      <<Stamp, "ns", "E", "NOT_IN_THUMB_STATE", "10001ae0", "bf30">>,
      <<Stamp, "ns", "E", "NOT_IN_THUMB_STATE", "10000078", "2600">>,
      <<Stamp, "ns", "MW4_D", "40240000", "00000001">>,
      <<Stamp, "ns", "MR4_I", "20000004", "49076008">> }
Probes ==
    { [i \in 1..n |-> IF i <= Len(b) THEN b[i] ELSE "x"] :
          b \in ProbeBases, n \in 0..MaxTokens }

\* C12: in every reachable engine state, for token sequences of every length
\* and both settings of each option, every token index access, stack access
\* and symbol lookup the annotation step makes is defined.
C12_StepNeverFails ==
    \A t \in Probes : \A stackOption, source \in BOOLEAN :
        AccessesDefined(Engine, t, stackOption, source)

\* the wake-up routine on top of a CallStack deep enough for WFI to pop it,
\* where the WFI probe reads the top of the stack twice
C12_Witness ==
    /\ Len(functionStack) > WfiMinDepth
    /\ functionStack[Len(functionStack) - 1] = "Reset_Handler_rom"
    /\ functionStack[Len(functionStack)] = "Main_ResetWakeup"

----------------------------------------------------------------------------
\* the PUSH lines read so far
PushLines == {i \in 1..Len(consumed) : HasOpcode(Split(consumed[i]), "PUSH")}

\* C13: the count of executed functions the summary reports (line 645) is
\* the number of PUSH lines read: no other line adds to it.
C13_ExecutedCountsPushLines == functionExecutionCount = Cardinality(PushLines)

----------------------------------------------------------------------------
\* the files ParseCFunctions opened and read: those that are not third-party
\* code, exist, and come before the first file that could not be opened
IsOpened(f) == ~IsThirdParty(f.name)
FilesRead ==
    {i \in 1..Len(sourceFileList) :
        /\ IsOpened(sourceFileList[i])
        /\ ~sourceFileList[i].missing
        /\ \A j \in 1..(i - 1) :
              IsOpened(sourceFileList[j]) => ~sourceFileList[j].missing}
Records == {functionDictionary[i] : i \in 1..Len(functionDictionary)}
RecordsOf(f) ==
    LET d == Declarations(f.name, f.matches) IN {d[i] : i \in 1..Len(d)}

\* C14: once the signature table is built, it holds every record of every
\* source file that was read, also when a later file could not be opened.
C14_PartialResultsKept ==
    phase = "trace"
    => \A i \in FilesRead : RecordsOf(sourceFileList[i]) \subseteq Records

----------------------------------------------------------------------------
WakeupRoutines == {"Main_ResetWakeup", "Reset_Handler_rom"}
WakeupOnTop ==
    /\ functionStack # <<>>
    /\ functionStack[Len(functionStack)] \in WakeupRoutines

\* C15: a WFI line read with one of the two wake-up routines on top of the
\* CallStack pops that entry, whatever the depth of the CallStack, writes no
\* exit banner and leaves PopPending clear; read with any other top, or on
\* the empty CallStack, it leaves the CallStack unchanged.
C15_WfiPopsWakeupRoutine ==
    [][HasOpcode(StepTokens, "WFI")
        => IF WakeupOnTop
           THEN /\ functionStack' = SubSeq(functionStack, 1, Len(functionStack) - 1)
                /\ WrittenAfter = <<>>
                /\ ~isPopInProgress'
           ELSE functionStack' = functionStack]_vars

----------------------------------------------------------------------------
\* frames joined by " -> "
RECURSIVE ArrowJoined(_)
ArrowJoined(frames) ==
    IF Len(frames) = 1 THEN <<frames[1]>>
    ELSE <<frames[1], WS, "->", WS>> \o ArrowJoined(Tail(frames))
\* the call-tree line of a CallStack of depth d >= 2: the min(d, 8) most
\* recent frames, after an ellipsis when older frames are left out
ExpectedCallTree(stack) ==
    LET d == Len(stack)
        shown == IF d > CallTreeFrames THEN CallTreeFrames ELSE d
    IN  <<WS>> \o (IF d > CallTreeFrames THEN <<"...", WS, "->", WS>> ELSE <<>>)
        \o ArrowJoined(SubSeq(stack, d - shown + 1, d))

\* C16: a resolved PUSH that leaves the CallStack at depth d >= 2 writes, as
\* the last line before the PUSH line and its blank, the call-tree line of
\* the min(d, 8) most recent frames, oldest first, with the ellipsis exactly
\* when d > 8.
C16_CallTreeShowsRecentFrames ==
    [][(IsResolvedPush(StepTokens) /\ Len(functionStack') >= 2)
        => /\ Len(WrittenBefore) >= 2
           /\ WrittenBefore[Len(WrittenBefore) - 1] = ExpectedCallTree(functionStack')]_vars

----------------------------------------------------------------------------
\* the step reads a POP that pops a frame, or a BX that pops the BranchStack
StepPops ==
    \/ HasOpcode(StepTokens, "POP") /\ functionStack # <<>>
    \/ HasOpcode(StepTokens, "BX") /\ functionBranchStack # <<>>
\* the step reads a mid-length IT or E line while a resume is pending
IsResumeStep ==
    isPopInProgress /\ IsMid(StepTokens) /\ TypeOf(StepTokens) \in {"IT", "E"}
\* the resume banner of the pending return, written once, first of the
\* lines before the line read
ResumeWrittenOnce ==
    /\ IsPrefixOf(<<Blank>> \o OwedResume, WrittenBefore)
    /\ Cardinality({i \in 1..Len(WrittenBefore) : WrittenBefore[i] = ResumeLine}) = 1
\* a line that is not a mid-length IT or E line keeps the resume pending
PendingKept ==
    (isPopInProgress /\ ~IsResumeStep) => (WrittenBefore = <<>> /\ isPopInProgress')

\* C17: a POP that pops a frame, or a BX that pops the BranchStack, sets
\* PopPending; the first mid-length IT or E line read while it is set writes
\* the resume banner of the function then on top of the CallStack (the bare
\* banner on an empty CallStack) before the line, once, and leaves PopPending
\* clear; any other line writes nothing before itself and leaves PopPending
\* set.
C17_ResumeWrittenThenClear ==
    [][/\ StepPops => isPopInProgress'
       /\ IsResumeStep => (ResumeWrittenOnce /\ ~isPopInProgress')
       /\ PendingKept]_vars

----------------------------------------------------------------------------
\* the line read is a reduced-information line with the opcode bytes of a
\* PUSH (b5..), a POP (bd..) or WFI (bf30)
StepRaw == Split(StepLine)
IsReducedCall(t) ==
    /\ Len(t) = 6
    /\ StartsWithThumbString(t[4])
    /\ (Prefix2(t[6]) \in {"b5", "bd"} \/ t[6] = "bf30")
\* the normal instruction line of the same instruction: type IT, the
\* instruction address and the opcode bytes in their usual fields
NormalTokens(t) ==
    IF Prefix2(t[6]) = "b5" THEN <<t[1], t[2], "IT", t[5], t[6], "PUSH", "{r4,lr}">>
    ELSE IF Prefix2(t[6]) = "bd" THEN <<t[1], t[2], "IT", t[5], t[6], "POP", "{r4,pc}">>
    ELSE <<t[1], t[2], "IT", t[5], t[6], "WFI">>
\* what the engine does with that normal line in the current state
NormalEffect(t) == Dispatch(Engine, NormalTokens(t), MkLine(NormalTokens(t)), isStack)

\* C18: in NotThumb mode a reduced-information line with opcode bytes b5..,
\* bd.. or bf30 changes CallStack, BranchStack, PopPending, EventPending and
\* the counters, and writes the banners before and after the line, exactly
\* as the normal PUSH, POP or WFI line at its instruction address does; in
\* Thumb mode a reduced-information line is dispatched and written as read.
C18_ReducedLineDispatchedAsNormal ==
    [][LET raw == StepRaw
       IN  IsReducedCall(raw)
            => IF isNotThumbState
               THEN LET normal == NormalEffect(raw)
                    IN  /\ functionStack' = normal.stack
                        /\ functionBranchStack' = normal.branch
                        /\ isPopInProgress' = normal.pop
                        /\ isEventPending' = normal.event
                        /\ isNotThumbState'
                        /\ functionExecutionCount' = normal.executed
                        /\ symbolsMissingCount' = normal.missing
                        /\ WrittenBefore = TextOf(EmitPrefix(normal))
                        /\ WrittenAfter = TextOf(EmitSuffix(normal))
               ELSE /\ StepTokens = raw
                    /\ Written[WrittenMain].text = StepLine
                    /\ functionStack' = functionStack
                    /\ WrittenAfter = <<>>]_vars

\* after the marker line, the reduced PUSH at 2000afc0 enters Foo and the
\* reduced POP leaves it
C18_Witness ==
    /\ consumed = <<ReducedMarker, ReducedPush, ReducedPop>>
    /\ isNotThumbState
    /\ functionStack = <<>>
    /\ isPopInProgress
    /\ \E i \in 1..Len(output) :
          output[i].text = <<"Foo", WS, "entry", WS, "(2000afc0)", WS>>
    /\ output[Len(output) - 2].text = <<"Foo", WS, "exiting...">>

----------------------------------------------------------------------------
IsSuffixOf(a, b) == Len(a) <= Len(b) /\ SubSeq(b, Len(b) - Len(a) + 1, Len(b)) = a

\* C19: in NotThumb mode with --source, a reduced-information line whose
\* instruction address (its fifth token) is a key of the source dictionary
\* is written with the text the dictionary holds for that address appended,
\* whether or not the line is relabelled as PUSH or POP.
C19_SourceAppendedToReducedLine ==
    [][(/\ isNotThumbState
        /\ isSource
        /\ IsReducedLine(StepRaw)
        /\ StepRaw[5] \in DOMAIN sourceDictionary)
        => /\ IsPrefixOf(RStrip(StepLine), Written[WrittenMain].text)
           /\ IsSuffixOf(<<WS>> \o sourceDictionary[StepRaw[5]],
                         Written[WrittenMain].text)]_vars

----------------------------------------------------------------------------
\* a mid-length event line carrying the reduced-information marker
IsMarkerLine(t) == IsMid(t) /\ TypeOf(t) = "E" /\ StartsWithThumbString(t[4])
Notices(p) == Cardinality({i \in 1..Len(p) : p[i] = ReducedNotice})

\* C20: before the first line ThumbState is Thumb; a step in Thumb mode
\* ends in NotThumb mode exactly when it reads a mid-length E line carrying
\* the marker, and prints the notice then; a step in NotThumb mode ends in
\* NotThumb mode and prints nothing; the notice is printed at most once.
C20_NotThumbStickyNoticeOnce ==
    [][/\ consumed = <<>> => ~isNotThumbState
       /\ ~isNotThumbState
           => /\ isNotThumbState' <=> IsMarkerLine(StepRaw)
              /\ Notices(printed') = Notices(printed)
                                     + (IF IsMarkerLine(StepRaw) THEN 1 ELSE 0)
       /\ isNotThumbState => (isNotThumbState' /\ printed' = printed)
       /\ Notices(printed') <= 1]_vars

\* two marker lines read: NotThumb since the first, one notice
C20_Witness ==
    /\ consumed = <<ReducedMarker, ReducedMarker, MovsLine>>
    /\ isNotThumbState
    /\ printed = <<ReducedNotice>>

----------------------------------------------------------------------------
\* C21: the BranchStack never holds more than one name; a BL to an address
\* of the symbol table leaves exactly the name of its target on it, whatever
\* was there; a BX leaves it empty; a BL to an address without a symbol
\* leaves the BranchStack and EventPending as they were.
C21_BranchStackHoldsOneName ==
    [][/\ Len(functionBranchStack) <= 1
       /\ Len(functionBranchStack') <= 1
       /\ IsResolvedBl(StepTokens)
           => functionBranchStack' = <<NameAt(Strip0x(StepTokens[11]))>>
       /\ HasOpcode(StepTokens, "BX") => functionBranchStack' = <<>>
       /\ (IsBl(StepTokens) /\ ~IsResolvedBl(StepTokens))
           => /\ functionBranchStack' = functionBranchStack
              /\ isEventPending' = isEventPending]_vars

\* a BL to Foo, a BL to an unknown address, then a BL to Bar: Bar alone is
\* the pending return target
C21_Witness ==
    /\ consumed = <<BlFoo, BlUnknown, BlBar>>
    /\ functionBranchStack = <<"Bar">>
    /\ isEventPending

----------------------------------------------------------------------------
\* the opcode token of a line as dispatched, if the line has one
HasOpcodeToken(t) == Len(t) > FORMAT_OPCODE_INDEX
StackOpcodes == {"PUSH", "POP", "BX", "WFI"}

\* C22: a line whose opcode token, as dispatched, is none of PUSH, POP, BX
\* and WFI, or that is too short to have one, leaves the CallStack exactly
\* as it was.
C22_CallStackChangedByStackOpcodesOnly ==
    [][(HasOpcodeToken(StepTokens) => StepTokens[6] \notin StackOpcodes)
        => functionStack' = functionStack]_vars

\* Foo is entered; a BL to Foo and the reduced-information marker line are
\* read, and Foo is still the only frame
C22_Witness ==
    /\ consumed = <<PushFoo, BlFoo, ReducedMarker>>
    /\ functionStack = <<"Foo">>
    /\ isNotThumbState

----------------------------------------------------------------------------
\* an identifier: underscores, a letter, then letters, digits or underscores
\* (on the tokens of the model's listings)
IsIdentifier(s) == s \in {"Foo", "Bar", "f"}
\* a line that consists of one identifier
IsLoneIdentifier(line) == Len(Split(line)) = 1 /\ IsIdentifier(Split(line)[1])
\* a line of more than 4 tokens whose first token is an address label
IsQualifying(line) == Len(Split(line)) > 4 /\ IsAddressLabel(Split(line)[1])
\* the (address, name) pairs of the lines read so far: one for every
\* lone-identifier line immediately followed by a qualifying line, in order
ExpectedPairs ==
    LET UpTo[n \in 0..Len(listed)] ==
            IF n < 2 THEN <<>>
            ELSE IF IsLoneIdentifier(listed[n - 1]) /\ IsQualifying(listed[n])
                 THEN Append(UpTo[n - 1],
                             <<StripLabel(Split(listed[n])[1]), Split(listed[n - 1])[1]>>)
            ELSE UpTo[n - 1]
    IN  UpTo[Len(listed)]

\* C23: after every line of the list file, the address and name sequences
\* have equal length and hold, entry by entry, exactly the pairs of the
\* lone-identifier lines immediately followed by a line of more than 4
\* tokens that starts with an address label; a candidate name followed by
\* any other line has no entry.
C23_SymbolRecordedWhenFollowedByCode ==
    /\ Len(functionAddressList) = Len(functionNameList)
    /\ [i \in 1..Len(functionAddressList) |->
           <<functionAddressList[i], functionNameList[i]>>] = ExpectedPairs

----------------------------------------------------------------------------
\* what the step does with the line read when the stack option is off
StepRepaired == Repair(isNotThumbState, isSource, Split(StepLine), StepLine)
StackOffEffect == Dispatch(Engine, StepRepaired.tokens, StepRepaired.line, FALSE)

\* C24: every step, with the stack option on or off, writes to the main
\* output and leaves in CallStack, BranchStack, the flags and the counters
\* exactly what the step from the same state writes and leaves with the
\* option off; with the option off nothing is written to the stack file.
C24_StackOptionLeavesMainPass ==
    [][/\ Written = Emit(StackOffEffect, Len(consumed) + 1)
       /\ functionStack' = StackOffEffect.stack
       /\ functionBranchStack' = StackOffEffect.branch
       /\ isPopInProgress' = StackOffEffect.pop
       /\ isEventPending' = StackOffEffect.event
       /\ isNotThumbState' = StackOffEffect.thumb
       /\ functionExecutionCount' = StackOffEffect.executed
       /\ symbolsMissingCount' = StackOffEffect.missing
       /\ ~isStack => stackOut' = stackOut]_vars

----------------------------------------------------------------------------
\* the step reads, in Thumb mode, the line that switches to NotThumb mode
IsSwitchStep == ~isNotThumbState /\ IsMarkerLine(StepRaw)
\* the line is dispatched with the tokens it was read with and written as read
DispatchedAsRead == StepTokens = StepRaw /\ Written[WrittenMain].text = StepLine
\* in NotThumb mode a reduced-information line with the opcode bytes of a
\* PUSH, a POP or WFI is dispatched under that opcode
LaterLinesRepaired ==
    (isNotThumbState /\ IsReducedCall(StepRaw))
        => StepTokens[6] =
              (IF Prefix2(StepRaw[6]) = "b5" THEN "PUSH"
               ELSE IF Prefix2(StepRaw[6]) = "bd" THEN "POP" ELSE "WFI")

\* C25 as stated: the line that switches to NotThumb mode, whatever its
\* opcode bytes, is dispatched as read, leaves CallStack and PopPending as
\* they were and writes no banner before or after itself; reduced-information
\* lines read in NotThumb mode are dispatched as PUSH, POP or WFI.
C25_SwitchLineChangesNothing ==
    [][/\ IsSwitchStep
           => /\ DispatchedAsRead
              /\ functionStack' = functionStack
              /\ isPopInProgress' = isPopInProgress
              /\ WrittenBefore = <<>>
              /\ WrittenAfter = <<>>
       /\ LaterLinesRepaired]_vars

\* C25 amended: the line that switches to NotThumb mode, whatever its opcode
\* bytes, is dispatched as read, leaves the CallStack as it was, does not
\* set PopPending and writes no start or exit banner; as any event line it
\* writes the resume banner owed to an earlier POP or BX, and nothing else,
\* before itself and leaves PopPending clear; reduced-information lines read
\* in NotThumb mode are dispatched as PUSH, POP or WFI.
C25_SwitchLineNotRepaired ==
    [][/\ IsSwitchStep
           => /\ DispatchedAsRead
              /\ functionStack' = functionStack
              /\ ~isPopInProgress'
              /\ WrittenBefore = (IF isPopInProgress
                                  THEN <<Blank>> \o OwedResume \o <<Blank>>
                                  ELSE <<>>)
              /\ WrittenAfter = <<>>
       /\ LaterLinesRepaired]_vars

\* the reduced-information line at Foo's entry is read twice: the first
\* switches the mode and enters nothing, the second enters Foo
C25_Witness ==
    /\ consumed = <<ReducedPush, ReducedPush>>
    /\ isNotThumbState
    /\ functionStack = <<"Foo">>
    /\ functionExecutionCount = 1
    /\ output[1] = [src |-> 1, text |-> ReducedPush]

----------------------------------------------------------------------------
\* the last two lines read are a PUSH at an address of the symbol table and
\* then a PUSH at an address without a symbol
AfterResolvedThenUnresolvedPush ==
    /\ Len(consumed) >= 2
    /\ IsResolvedPush(Split(consumed[Len(consumed) - 1]))
    /\ IsUnresolvedPush(Split(consumed[Len(consumed)]))
\* the function the resolved PUSH entered
EnteredBefore == NameAt(Split(consumed[Len(consumed) - 1])[4])

\* C26: a POP read right after a resolved PUSH of F and an unresolved PUSH
\* finds F on top of the CallStack, removes it and writes the exit banner
\* naming F after the line: the unresolved PUSH had entered no frame.
C26_PopAfterUnresolvedPushLeavesCaller ==
    [][(AfterResolvedThenUnresolvedPush /\ HasOpcode(StepTokens, "POP"))
        => /\ functionStack # <<>>
           /\ functionStack[Len(functionStack)] = EnteredBefore
           /\ functionStack' = SubSeq(functionStack, 1, Len(functionStack) - 1)
           /\ WrittenAfter = <<Blank, <<EnteredBefore, WS, "exiting...">>,
                                ExitBanner, Blank>>]_vars

\* Foo is entered, a function without a symbol is entered and returns: the
\* CallStack is empty although Foo is still active
C26_Witness ==
    /\ consumed = <<PushFoo, PushUnknown, PopLine>>
    /\ functionStack = <<>>
    /\ symbolsMissingCount = 1
    /\ TextOf(SubSeq(output, Len(output) - 3, Len(output))) =
         <<Blank, <<"Foo", WS, "exiting...">>, ExitBanner, Blank>>

====
